---- MODULE Spec2Model ----
(***************************************************************************)
(* A model of mmap-simple (src/src/lib.rs): one file, one Mmap instance at *)
(* a time, the public operations new, append, append_with, overwrite,      *)
(* overwrite_with, drop_from_tail, read, read_with, and the discarding of  *)
(* the instance.                                                           *)
(*                                                                         *)
(* Scale.  The program computes in 64-bit words and reserves 1 << 40       *)
(* bytes.  The model keeps the structure and shrinks the numbers: a word   *)
(* has WordBits bits, the reservation is Reservation bytes, the host       *)
(* accepts files of up to MaxFileLen bytes, with                           *)
(*     Reservation < MaxFileLen <= OffMax < Modulus                        *)
(* as on a 64-bit Linux host (2^40 < file-system limit <= 2^63-1 < 2^64).  *)
(* A byte is 0 (what a file extension fills in) or 1.                      *)
(***************************************************************************)
EXTENDS Integers, Sequences, FiniteSets, TLC

VARIABLES
    inst,       \* "none" | "live": whether an Mmap value exists
    ptr,        \* Mmap.ptr: base address of the instance's reservation, 0 if none
    mapped,     \* the process holds a reservation made by new()
    size,       \* Mmap.size
    content,    \* the bytes of the backing file; its length is the allocated length
    dirty,      \* file changes not yet covered by a successful sync_all
    clean,      \* every operation since new() returned success
    appended,   \* bytes of the successful appends since new() on an empty file, or Void
    last        \* the last call: operation, arguments, result, range given to the
                \* callback, and for a failed mmap <<errno, error kind, carried code>>

vars == <<inst, ptr, mapped, size, content, dirty, clean, appended, last>>

----------------------------------------------------------------------------
(* Bounds and scaled program constants *)

WordBits == 4
Modulus == 2 ^ WordBits
OffMax == 2 ^ (WordBits - 1) - 1
Reservation == 2
MaxFileLen == 3
MaxData == 2

EACCES == 13
EBADF == 9
EINVAL == 22
ENODEV == 19
ENOMEM == 12
EOTHER == 11

Byte == {0, 1}
Errnos == {EACCES, EBADF, EINVAL, ENODEV, ENOMEM, EOTHER}
Void == <<-1>>
NoRange == <<>>

SeqsOfLen(n) == [1..n -> Byte]
Datas == UNION {SeqsOfLen(n) : n \in 0..MaxData}
Files == UNION {SeqsOfLen(n) : n \in 0..MaxFileLen}
SmallArgs == 0..MaxFileLen
HighArgs == {Modulus - 1}
Words == SmallArgs \cup HighArgs

(* What a caller's writer closure leaves in the slice it is given: nothing, *)
(* or the slice filled with one byte.                                       *)
WriterOutputs(len) == {<<>>} \cup {[i \in 1..len |-> b] : b \in Byte}

----------------------------------------------------------------------------
(* Arithmetic of the program's integer types.  An overflowing + or - panics *)
(* in a build with overflow checks and wraps in a build without them.       *)

Overflows(a, b) == a + b >= Modulus
WrapAdd(a, b) == (a + b) % Modulus
Underflows(a, b) == a < b
WrapSub(a, b) == (a - b + Modulus) % Modulus
AsIsize(w) == IF w > OffMax THEN w - Modulus ELSE w

----------------------------------------------------------------------------
(* The file and the mapped view *)

FileLen(c) == Len(c)

SetLenAccepts(n) == n <= OffMax /\ n <= MaxFileLen

SetLen(c, n) == [i \in 1..n |-> IF i <= Len(c) THEN c[i] ELSE 0]

(* A call that returns without flushing what it changed. *)
sync_all_skipped(ok, wasDirty, changed) == wasDirty \/ changed

(* self.file.sync_all(): when it succeeds nothing written to the file so   *)
(* far is left unflushed; when it fails what was unflushed stays so.       *)
sync_all(ok, wasDirty, changed) == IF ok THEN FALSE ELSE (wasDirty \/ changed)

(* Offset o of the reservation is backed by the file. *)
ValidOffset(c, o) == 0 <= o /\ o < FileLen(c) /\ o < Reservation

(* An access through the raw slice at an offset the file does not back is *)
(* undefined: the process is killed (Faults), or the access lands on       *)
(* memory that is not the file: a write does not reach the file            *)
(* (CopyFromSlice), a read sees any bytes (ViewsOf).                       *)
Strays(c, start, n) == \E k \in 0..(n - 1) : ~ValidOffset(c, start + k)

CopyFromSlice(c, start, data) ==
    [i \in 1..Len(c) |->
        IF i - 1 >= start /\ i - 1 < start + Len(data) /\ ValidOffset(c, i - 1)
        THEN data[i - start] ELSE c[i]]

ViewsOf(c, start, n) ==
    {v \in SeqsOfLen(n) :
        \A k \in 0..(n - 1) : ValidOffset(c, start + k) => v[k + 1] = c[start + k + 1]}

----------------------------------------------------------------------------
(* Decisions of the code *)

OutOfRange(offset, len, sz) == WrapAdd(offset, len) > sz

(* new(): the length read from the file's metadata becomes Mmap.size. *)
OpenSize(c) == FileLen(c)

(* A new() that opened the file with truncate(true). *)
OpenContentTruncating(c) == <<>>

(* new(): the file as OpenOptions ... truncate(false).create(true) leaves it. *)
OpenContent(c) == c

(* append_with: the length given to set_len, and the size stored afterwards. *)
AppendLen(sz, len) == WrapAdd(sz, len)

AppendSize(sz, len) == WrapAdd(sz, len)

(* A drop_from_tail that gives set_len the number of bytes to drop. *)
DropLenIsLen(sz, len) == len

(* drop_from_tail: the length given to set_len. *)
DropLen(sz, len) == WrapSub(sz, len)

(* A drop_from_tail that forgets self.size -= len. *)
DropSizeKept(sz, len) == sz

(* drop_from_tail: the size stored after the flush. *)
DropSize(sz, len) == WrapSub(sz, len)

(* A new() that reports every failed mmap as ErrUnknown(code). *)
MapErrorUnknownOnly(code) == <<"ErrUnknown", code>>

(* new(): the MmapError made from the errno of a failed mmap; the second   *)
(* component is the code carried by ErrUnknown, 0 for the other kinds.     *)
MapError(code) ==
    CASE code = EACCES -> <<"ErrFdNotAvail", 0>>
      [] code = EBADF -> <<"ErrInvalidFd", 0>>
      [] code = EINVAL -> <<"ErrUnaligned", 0>>
      [] code = ENODEV -> <<"ErrNoMapSupport", 0>>
      [] code = ENOMEM -> <<"ErrNoMem", 0>>
      [] OTHER -> <<"ErrUnknown", code>>

----------------------------------------------------------------------------
(* How a call ends *)

Call(op, offset, len, data, res, cb, err) ==
    [op |-> op, off |-> offset, len |-> len, data |-> data, res |-> res, cb |-> cb, err |-> err]

(* A call that maps the file again before it returns. *)
ReturnsRemapped(op, offset, len, data, res, cb) ==
    /\ last' = Call(op, offset, len, data, res, cb, <<>>)
    /\ clean' = (clean /\ res = "ok")
    /\ ptr' = ptr + 1
    /\ UNCHANGED <<inst, mapped>>

(* The call returns Ok or Err to the caller: self.ptr is only read and    *)
(* nothing maps or unmaps.                                                 *)
Returns(op, offset, len, data, res, cb) ==
    /\ last' = Call(op, offset, len, data, res, cb, <<>>)
    /\ clean' = (clean /\ res = "ok")
    /\ UNCHANGED <<inst, ptr, mapped>>

(* The call panics: unwinding drops the Mmap value, which closes the file  *)
(* and, there being no Drop for Mmap, leaves the reservation in place.     *)
Panics(op, offset, len, data) ==
    /\ last' = Call(op, offset, len, data, "panic", NoRange, <<>>)
    /\ inst' = "none"
    /\ ptr' = 0
    /\ clean' = FALSE
    /\ appended' = Void
    /\ UNCHANGED <<mapped, size, content, dirty>>

(* The access outside the file kills the process (SIGBUS, SIGSEGV). *)
Faults(op, offset, len, data, cb, c) ==
    /\ last' = Call(op, offset, len, data, "fault", cb, <<>>)
    /\ inst' = "none"
    /\ ptr' = 0
    /\ mapped' = FALSE
    /\ clean' = FALSE
    /\ appended' = Void
    /\ content' = c
    /\ dirty' = (dirty \/ c # content)
    /\ UNCHANGED size

----------------------------------------------------------------------------
(* Operations *)

Init ==
    /\ inst = "none"
    /\ ptr = 0
    /\ mapped = FALSE
    /\ size = 0
    /\ content \in Files
    /\ dirty = FALSE
    /\ clean = FALSE
    /\ appended = Void
    /\ last = Call("init", 0, 0, <<>>, "ok", NoRange, <<>>)

new ==
    /\ inst = "none"
    /\ \E openOk \in BOOLEAN, code \in Errnos \cup {0} :
        IF ~openOk
        THEN /\ last' = Call("new", 0, 0, <<>>, "panic", NoRange, <<>>)
             /\ size' = 0
             /\ clean' = FALSE
             /\ UNCHANGED <<inst, ptr, mapped, content, dirty, appended>>
        ELSE IF code # 0
        THEN /\ last' = Call("new", 0, 0, <<>>, "maperr", NoRange, <<code>> \o MapError(code))
             /\ content' = OpenContent(content)
             /\ size' = 0
             /\ clean' = FALSE
             /\ UNCHANGED <<inst, ptr, mapped, dirty, appended>>
        ELSE /\ last' = Call("new", 0, 0, <<>>, "ok", NoRange, <<>>)
             /\ inst' = "live"
             /\ ptr' = 1
             /\ mapped' = TRUE
             /\ content' = OpenContent(content)
             /\ size' = OpenSize(content')
             /\ clean' = TRUE
             /\ appended' = IF content' = <<>> THEN <<>> ELSE Void
             /\ UNCHANGED dirty

(* The caller drops the Mmap value: fs::File closes; nothing unmaps ptr.   *)
(* size and clean keep their last values for the comparison with the next *)
(* new().                                                                  *)
discard ==
    /\ inst = "live"
    /\ inst' = "none"
    /\ ptr' = 0
    /\ appended' = Void
    /\ last' = Call("discard", 0, 0, <<>>, "ok", NoRange, <<>>)
    /\ UNCHANGED <<mapped, size, content, dirty, clean>>

AppendWithCore(op, len, data, shown) ==
    /\ inst = "live"
    /\ \/ /\ Overflows(size, len)
          /\ Panics(op, 0, len, shown)
       \/ \E setLenOk \in BOOLEAN :
            IF ~(setLenOk /\ SetLenAccepts(AppendLen(size, len)))
            THEN /\ Returns(op, 0, len, shown, "ioerr", NoRange)
                 /\ appended' = Void
                 /\ UNCHANGED <<size, content, dirty>>
            ELSE LET grown == SetLen(content, AppendLen(size, len))
                     written == CopyFromSlice(grown, size, data)
                     cb == <<size, len>>
                 IN \/ /\ Strays(grown, size, Len(data))
                       /\ \E c \in {grown, written} : Faults(op, 0, len, shown, cb, c)
                    \/ \E syncOk \in BOOLEAN :
                       /\ content' = written
                       /\ size' = AppendSize(size, len)
                       /\ dirty' = sync_all(syncOk, dirty, written # content)
                       /\ appended' = IF syncOk /\ appended # Void /\ op = "append"
                                      THEN appended \o data ELSE Void
                       /\ Returns(op, 0, len, shown, IF syncOk THEN "ok" ELSE "ioerr", cb)

append == \E data \in Datas : AppendWithCore("append", Len(data), data, data)

append_with ==
    \E len \in Words : \E data \in WriterOutputs(len) :
        AppendWithCore("append_with", len, data, <<>>)

OverwriteWithCore(op, offset, len, data, shown) ==
    /\ inst = "live"
    /\ \/ /\ Overflows(offset, len)
          /\ Panics(op, offset, len, shown)
       \/ IF OutOfRange(offset, len, size)
          THEN /\ Returns(op, offset, len, shown, "eof", NoRange)
               /\ appended' = Void
               /\ UNCHANGED <<size, content, dirty>>
          ELSE LET start == AsIsize(offset)
                   written == CopyFromSlice(content, start, data)
                   cb == <<start, len>>
               IN \/ /\ Strays(content, start, Len(data))
                     /\ \E c \in {content, written} : Faults(op, offset, len, shown, cb, c)
                  \/ \E syncOk \in BOOLEAN :
                     /\ content' = written
                     /\ dirty' = sync_all(syncOk, dirty, written # content)
                     /\ appended' = Void
                     /\ UNCHANGED size
                     /\ Returns(op, offset, len, shown, IF syncOk THEN "ok" ELSE "ioerr", cb)

overwrite ==
    \E offset \in Words, data \in Datas :
        OverwriteWithCore("overwrite", offset, Len(data), data, data)

overwrite_with ==
    \E offset \in Words, len \in Words : \E data \in WriterOutputs(len) :
        OverwriteWithCore("overwrite_with", offset, len, data, <<>>)

drop_from_tail ==
    /\ inst = "live"
    /\ \E len \in Words :
        \/ /\ Underflows(size, len)
           /\ Panics("drop_from_tail", 0, len, <<>>)
        \/ \E setLenOk \in BOOLEAN, syncOk \in BOOLEAN :
             IF ~(setLenOk /\ SetLenAccepts(DropLen(size, len)))
             THEN /\ Returns("drop_from_tail", 0, len, <<>>, "ioerr", NoRange)
                  /\ appended' = Void
                  /\ UNCHANGED <<size, content, dirty>>
             ELSE /\ content' = SetLen(content, DropLen(size, len))
                  /\ appended' = Void
                  /\ dirty' = sync_all(syncOk, dirty, content' # content)
                  /\ IF syncOk
                     THEN /\ size' = DropSize(size, len)
                          /\ Returns("drop_from_tail", 0, len, <<>>, "ok", NoRange)
                     ELSE /\ UNCHANGED size
                          /\ Returns("drop_from_tail", 0, len, <<>>, "ioerr", NoRange)

ReadWithCore(op, offset, len, returned) ==
    /\ inst = "live"
    /\ \/ /\ Overflows(offset, len)
          /\ Panics(op, offset, len, <<>>)
       \/ IF OutOfRange(offset, len, size)
          THEN /\ Returns(op, offset, len, <<>>, "eof", NoRange)
               /\ appended' = Void
               /\ UNCHANGED <<size, content, dirty>>
          ELSE LET start == AsIsize(offset)
                   cb == <<start, len>>
               IN \/ /\ Strays(content, start, len)
                     /\ Faults(op, offset, len, <<>>, cb, content)
                  \/ \E seen \in (IF returned THEN ViewsOf(content, start, len) ELSE {<<>>}) :
                     /\ Returns(op, offset, len, seen, "ok", cb)
                     /\ UNCHANGED <<size, content, dirty, appended>>

read ==
    \E offset \in Words, len \in Words :
        IF len > OffMax
        THEN inst = "live" /\ Panics("read", offset, len, <<>>)
        ELSE ReadWithCore("read", offset, len, TRUE)

read_with == \E offset \in Words, len \in Words : ReadWithCore("read_with", offset, len, FALSE)

Next ==
    \/ new
    \/ discard
    \/ append
    \/ append_with
    \/ overwrite
    \/ overwrite_with
    \/ drop_from_tail
    \/ read
    \/ read_with

Spec == Init /\ [][Next]_vars

----------------------------------------------------------------------------
(* Vocabulary of the properties *)

Live == inst = "live"
CheckedOps == {"overwrite", "overwrite_with", "read", "read_with"}
AppendOps == {"append", "append_with"}
MutatingOps == AppendOps \cup {"overwrite", "overwrite_with", "drop_from_tail"}
Exposed == last.cb # NoRange
SamePrefix(c, d, n) == \A i \in 1..n : (i <= Len(c) /\ i <= Len(d)) => c[i] = d[i]
SameOutside(c, d, start, n) ==
    /\ Len(c) = Len(d)
    /\ \A i \in 1..Len(c) : (i - 1 < start \/ i - 1 >= start + n) => c[i] = d[i]

----------------------------------------------------------------------------
(* C1: every range that read, read_with, overwrite or overwrite_with hands *)
(* to its callback lies inside [0, logical size), and a call whose         *)
(* offset + length exceeds the logical size hands over no range.           *)
C1_AccessWithinLogicalSize ==
    (last.op \in CheckedOps) =>
        /\ Exposed => (last.cb[1] >= 0 /\ last.cb[1] + last.cb[2] <= size)
        /\ (last.off + last.len > size) => ~Exposed

C3_SizeIsFileLenAlways == Live => size = FileLen(content)

(* C4: 0 <= logical size <= reservation size in every state.               *)
C4_SizeWithinReservation == Live => (0 <= size /\ size <= Reservation)

(* C5: a successful append(data) at logical size p grows the logical size  *)
(* by len(data) and leaves the bytes below p unchanged, and a read of      *)
(* (p, len(data)) that follows it returns data.                            *)
C5_AppendThenRead ==
    [][ /\ (Live /\ last'.op = "append" /\ last'.res = "ok")
            => /\ size' = size + last'.len
               /\ SamePrefix(content, content', size)
        /\ (last.op = "append" /\ last.res = "ok" /\ last'.op = "read" /\ last'.res = "ok"
              /\ last'.off = size - last.len /\ last'.len = last.len)
            => last'.data = last.data
      ]_vars

(* C6: an overwrite(offset, data) with offset + len(data) <= logical size  *)
(* is never refused as out of range; when it returns success the logical   *)
(* size and every byte outside the range are unchanged, and a read of the  *)
(* same range that follows it returns data.                                *)
C6_OverwriteThenRead ==
    [][ /\ (Live /\ last'.op = "overwrite" /\ last'.off + last'.len <= size)
            => last'.res # "eof"
        /\ (Live /\ last'.op = "overwrite" /\ last'.off + last'.len <= size
              /\ last'.res = "ok")
            => /\ size' = size
               /\ SameOutside(content, content', last'.off, last'.len)
        /\ (last.op = "overwrite" /\ last.res = "ok" /\ last.off + last.len <= size
              /\ last'.op = "read" /\ last'.res = "ok"
              /\ last'.off = last.off /\ last'.len = last.len)
            => last'.data = last.data
      ]_vars

(* C7: overwrite, overwrite_with, read and read_with called with          *)
(* offset + length > logical size return the end-of-range error, hand no   *)
(* range to the callback and leave content, file length and logical size   *)
(* unchanged.                                                              *)
C7_OutOfRangeRejected ==
    [][ (Live /\ last'.op \in CheckedOps /\ last'.off + last'.len > size)
            => /\ last'.res = "eof"
               /\ last'.cb = NoRange
               /\ content' = content
               /\ size' = size
      ]_vars

(* C8: a successful drop_from_tail(n) with n <= logical size s sets the    *)
(* logical size and the file length to s - n and keeps the bytes below     *)
(* s - n; a successful append of n bytes that follows it brings the size   *)
(* back to s and still keeps the bytes below s - n.                        *)
C8_DropThenAppend ==
    [][ /\ (Live /\ last'.op = "drop_from_tail" /\ last'.res = "ok" /\ last'.len <= size)
            => /\ size' = size - last'.len
               /\ FileLen(content') = size - last'.len
               /\ SamePrefix(content, content', size - last'.len)
        /\ (last.op = "drop_from_tail" /\ last.res = "ok" /\ size + last.len < Modulus
              /\ last'.op \in AppendOps /\ last'.res = "ok" /\ last'.len = last.len)
            => /\ size' = size + last.len
               /\ FileLen(content') >= size
               /\ SamePrefix(content, content', size)
      ]_vars

C8_Witness ==
    /\ Live
    /\ last.op = "drop_from_tail" /\ last.res = "ok" /\ last.len \in 1..MaxFileLen
    /\ size > 0 /\ size = FileLen(content) /\ \E i \in 1..size : content[i] # 0

(* C9: from an empty file, after any sequence of successful appends the    *)
(* file content is the concatenation of their data in call order and the   *)
(* logical size is the sum of their lengths.                               *)
C9_AppendsConcatenate ==
    (Live /\ appended # Void) => (content = appended /\ size = Len(appended))

(* C10: new() never truncates the file and takes the logical size from     *)
(* the file's length; after successful operations only, discarding the     *)
(* instance and calling new() on the same path gives the same logical size *)
(* and the same content.                                                   *)
C10_ReopenRoundTrip ==
    [][ /\ (last'.op = "new" /\ last'.res = "ok")
            => (content' = content /\ size' = FileLen(content))
        /\ (last.op = "discard" /\ clean /\ last'.op = "new" /\ last'.res = "ok")
            => (size' = size /\ content' = content)
      ]_vars

C10_Witness ==
    /\ inst = "none" /\ last.op = "discard" /\ clean
    /\ size > 0 /\ \E i \in 1..Len(content) : content[i] # 0

(* C11: when append, append_with, overwrite, overwrite_with or            *)
(* drop_from_tail returns success, the flush it made came after its change *)
(* to the file's length and content: nothing of the file is left           *)
(* unflushed, so the durable file is the file as the call left it.         *)
C11_SuccessIsFlushed ==
    [][ (Live /\ last'.op \in MutatingOps /\ last'.res = "ok") => ~dirty' ]_vars

C11_Witness ==
    /\ Live /\ ~dirty
    /\ last.op \in {"append", "overwrite"} /\ last.res = "ok"
    /\ last.cb # NoRange /\ last.cb[1] >= 0 /\ last.len > 0
    /\ \E i \in 1..last.len :
          last.cb[1] + i <= Len(content) /\ content[last.cb[1] + i] = 1 /\ last.data[i] = 1

(* C12: an append, overwrite or drop_from_tail that returns an error       *)
(* (range check, file resize or flush failed) leaves the logical size, the *)
(* file's allocated length and the content as they were before the call.   *)
C12_FailureLeavesNoChange ==
    [][ (Live /\ last'.op \in MutatingOps /\ last'.res \in {"eof", "ioerr"})
            => /\ size' = size
               /\ FileLen(content') = FileLen(content)
               /\ content' = content
      ]_vars

(* C13: a new() that does not produce an instance returns an error value   *)
(* to the caller, also when opening the file or reading its length fails,  *)
(* and keeps neither a file handle nor a mapping.                          *)
C13_NewFailsWithErrorValue ==
    [][ (last'.op = "new" /\ last'.res # "ok")
            => /\ last'.res \in {"ioerr", "maperr"}
               /\ inst' = "none" /\ ptr' = 0
               /\ mapped' = mapped
      ]_vars

(* C14: when mmap fails in new() the error kind is determined by the host  *)
(* error code: EACCES, EBADF, EINVAL, ENODEV and ENOMEM give ErrFdNotAvail, *)
(* ErrInvalidFd, ErrUnaligned, ErrNoMapSupport and ErrNoMem, every other   *)
(* code c gives ErrUnknown(c); no call other than new() produces a         *)
(* mapping error.                                                          *)
C14_ErrorKindFromCode ==
    /\ (last.res = "maperr") =>
          /\ last.op = "new"
          /\ Len(last.err) = 3
          /\ last.err[1] = EACCES => last.err[2] = "ErrFdNotAvail"
          /\ last.err[1] = EBADF => last.err[2] = "ErrInvalidFd"
          /\ last.err[1] = EINVAL => last.err[2] = "ErrUnaligned"
          /\ last.err[1] = ENODEV => last.err[2] = "ErrNoMapSupport"
          /\ last.err[1] = ENOMEM => last.err[2] = "ErrNoMem"
          /\ last.err[1] \notin {EACCES, EBADF, EINVAL, ENODEV, ENOMEM}
                => (last.err[2] = "ErrUnknown" /\ last.err[3] = last.err[1])
    /\ (last.op # "new" \/ last.res # "maperr") => last.err = <<>>

C14_Witness ==
    /\ last.op = "new" /\ last.res = "maperr"
    /\ last.err = <<ENOMEM, "ErrNoMem", 0>>

(* C15: the reservation and the file handle exist together while the      *)
(* instance does, and once the instance has been discarded the process no  *)
(* longer holds the reservation.                                           *)
C15_ReleasedOnDiscard ==
    /\ Live => (mapped /\ ptr # 0)
    /\ (last.op = "discard") => (inst = "none" /\ ~mapped)

(* C16: once new() has succeeded, no append, overwrite, drop_from_tail or  *)
(* read, whether it returns success or an error, changes the base address  *)
(* of the mapping or the reservation the process holds.                    *)
C16_ReservationFixed ==
    [][ (Live /\ last'.op \notin {"new", "discard"} /\ last'.res \in {"ok", "eof", "ioerr"})
            => /\ inst' = "live"
               /\ ptr' = ptr
               /\ mapped' = mapped /\ mapped
      ]_vars

C16_Witness ==
    /\ Live /\ ptr = 1 /\ mapped
    /\ last.op = "drop_from_tail" /\ last.res = "ioerr"
    /\ size > FileLen(content)

(* C17: read and read_with, returning success or the range error, leave    *)
(* the logical size, the file's length and content unchanged and flush     *)
(* nothing; a successful read(offset, len) returns the len bytes of the     *)
(* file at [offset, offset + len).                                         *)
C17_ReadIsPure ==
    [][ /\ (Live /\ last'.op \in {"read", "read_with"} /\ last'.res \in {"ok", "eof"})
            => /\ size' = size
               /\ content' = content
               /\ dirty' = dirty
        /\ (Live /\ last'.op = "read" /\ last'.res = "ok")
            => /\ Len(last'.data) = last'.len
               /\ \A i \in 1..last'.len :
                     /\ last'.off + i <= FileLen(content)
                     /\ last'.data[i] = content[last'.off + i]
      ]_vars

(* C18: in every reachable state, also after calls that returned an error, *)
(* the range last handed to a reader or writer callback lies inside the    *)
(* file's allocated length (an empty range touches nothing).               *)
C18_AccessWithinFile ==
    (Exposed /\ last.cb[2] > 0)
        => (last.cb[1] >= 0 /\ last.cb[1] + last.cb[2] <= FileLen(content))

(* C19: when offset + len of a read, read_with, overwrite or               *)
(* overwrite_with exceeds the largest word value, the call hands no range  *)
(* to its callback and does not return success.                            *)
C19_WrappingSumRejected ==
    (last.op \in CheckedOps /\ last.off + last.len >= Modulus)
        => (~Exposed /\ last.res # "ok")

(* C20: a drop_from_tail(len) with len greater than the logical size does  *)
(* not return success and changes neither the logical size nor the file's  *)
(* allocated length.                                                       *)
C20_OverlongDropRejected ==
    [][ (Live /\ last'.op = "drop_from_tail" /\ last'.len > size)
            => /\ last'.res # "ok"
               /\ size' = size
               /\ FileLen(content') = FileLen(content)
      ]_vars

====
